---- MODULE Spec2Model ----
(***************************************************************************)
(* Model of the storage layer of go-cpe-dictionary (package db):           *)
(*   - NewDB, the open sequence (newDB, OpenDB, IsGoCPEDictModelV1,        *)
(*     MigrateDB) and CloseDB;                                             *)
(*   - GetFetchMeta / UpsertFetchMeta on the fetch_meta table;             *)
(*   - InsertCpes (deleteAndInsertCpes) with its transaction, the chunked  *)
(*     delete and insert statements, and the two lookups that read the     *)
(*     store while a replace runs.                                         *)
(* The relational backend is modelled by what its statements do: a set of  *)
(* tables, a set of rows per table, and a transaction that works on a      *)
(* private copy which Commit publishes and Rollback discards.              *)
(***************************************************************************)
EXTENDS Integers, Sequences, FiniteSets, TLC

(***************************************************************************)
(* Bounds of the model.                                                    *)
(***************************************************************************)
\* NewDB calls per behaviour
MaxOpens == 2
\* rows the fetch_meta table may hold
MaxMetaRows == 2

\* rows of categorized_cpes a replace may find
MaxStore == 2
\* entries of the batch passed to InsertCpes
MaxBatch == 2
\* identifiers per delete statement and rows per insert statement: the
\* source's 10000 (main.go 355) and 2000 (main.go 362), scaled to the
\* model's store
DeleteChunkSize == 1
InsertChunkSize == 1
\* the lengths and chunk sizes chunkSlice is called with on its own
MaxLength == 8
MaxChunkSize == 3

(***************************************************************************)
(* Program constants.                                                      *)
(***************************************************************************)
dialectSqlite3 == "sqlite3"
dialectMysql == "mysql"
dialectPostgreSQL == "postgres"
dialectRedis == "redis"
\* models.LatestSchemaVersion
LatestSchemaVersion == 2
\* config.Revision of the running build
Revision == "rev_build"

\* the names gorm gives the two model tables, and some unrelated table
FetchMetaTable == "fetch_metas"
CategorizedCpeTable == "categorized_cpes"
OtherTable == "other"

NoErr == "nil"
NilDriver == "nil"

VARIABLES
    dbType,     \* NewDB's dbType argument
    pc,         \* position of the caller / of NewDB
    driver,     \* the driver NewDB constructed: "nil", "rdb" or "redis"
    conn,       \* RDBDriver.conn: "nil", "open" or "closed"
    ret,        \* NewDB's results [driver, locked, err]
    steps,      \* the steps of the running NewDB call, in call order
    stepRes,    \* the outcome of each step: "ok", "isV1", "err" or what failed the open
    faults,     \* TRUE once the backend failed a statement of this NewDB call
    opens,      \* NewDB calls so far
    tables,     \* the tables of the store
    metas,      \* rows of fetch_metas
    cpes,       \* committed rows of categorized_cpes
    openPre,    \* [tables, metas, cpes] when the running NewDB call started
    metaOp,     \* the last metadata call of the caller and its results
    ipc,        \* position of the running InsertCpes call
    fetchType,  \* InsertCpes' fetchType argument
    batch,      \* InsertCpes' cpes argument
    tx,         \* the transaction: [state, rows], rows being its private copy
    cpeSeq,     \* the last primary key the backend gave a categorized_cpes row
    oldIDs,     \* the identifiers the select returned
    delCh,      \* the chunkSlice producer of the delete loop [i, length, started]
    insCh,      \* the chunkSlice producer of the insert loop
    stmts,      \* the delete and insert statements issued, in order
    ierr,       \* the error InsertCpes returns
    pre,        \* categorized_cpes when InsertCpes was called
    readRet,    \* the result of the lookup that returned since InsertCpes' last step
    ch,         \* a chunkSlice call of its own: the producer goroutine
    closed,     \* its channel is closed
    got         \* the ranges received from its channel, in order

chunkVars == <<ch, closed, got>>
lifeVars == <<dbType, pc, driver, conn, ret, steps, stepRes, faults, opens,
              tables, openPre>>
replVars == <<ipc, fetchType, batch, tx, cpeSeq, oldIDs, delCh, insCh, stmts,
              ierr, pre, readRet, chunkVars>>
vars == <<dbType, pc, driver, conn, ret, steps, stepRes, faults, opens,
          tables, metas, cpes, openPre, metaOp, ipc, fetchType, batch, tx,
          cpeSeq, oldIDs, delCh, insCh, stmts, ierr, pre, readRet,
          ch, closed, got>>

(***************************************************************************)
(* Values.                                                                 *)
(***************************************************************************)
DbTypes == {dialectSqlite3, dialectMysql, dialectPostgreSQL, dialectRedis, "oracle"}
Revisions == {Revision, "rev_old"}
SchemaVersions == 1..LatestSchemaVersion
FetchTypes == {"NVD", "JVN"}
\* lastFetchedAt: the zero time and a later one
Times == {0, 1}

\* models.FetchMeta: gorm.Model's ID (0 = not yet stored) and the three fields
FetchMeta(id, rev, sv, lfa) ==
    [id |-> id, GoCPEDictRevision |-> rev, SchemaVersion |-> sv, LastFetchedAt |-> lfa]

\* models.CategorizedCpe, the fields the storage layer reads
CategorizedCpe(id, ft, vendor, product, uri, deprecated) ==
    [id |-> id, FetchType |-> ft, Vendor |-> vendor, Product |-> product,
     CpeURI |-> uri, Deprecated |-> deprecated]

Max(S) == CHOOSE x \in S : \A y \in S : y <= x
\* the auto-increment primary key the backend gives an inserted row
NextID(rows) == IF rows = {} THEN 1 ELSE Max({r.id : r \in rows}) + 1

(***************************************************************************)
(* newDB, main.go 103-111.                                                 *)
(***************************************************************************)
newDB(t) ==
    IF t \in {dialectSqlite3, dialectMysql, dialectPostgreSQL}
    THEN [driver |-> "rdb", err |-> NoErr]
    ELSE IF t = dialectRedis
    THEN [driver |-> "redis", err |-> NoErr]
    ELSE [driver |-> NilDriver, err |-> "Invalid database dialect"]

(***************************************************************************)
(* RDBDriver.OpenDB, main.go 177-220.  gorm.Open either succeeds, fails    *)
(* with a sqlite3.Error (sqlite dialect only) carrying a result code, or   *)
(* fails with an error of another type (a bad DSN, a refused connection).  *)
(***************************************************************************)
Sqlite3Errors == {"sqlite3.ErrLocked", "sqlite3.ErrBusy", "sqlite3.ErrCantOpen"}
GormOpenOutcomes(name) ==
    {"ok", "error"} \cup (IF name = dialectSqlite3 THEN Sqlite3Errors ELSE {})

RDBOpenDB(name, o) ==
    LET err == IF name \in {dialectSqlite3, dialectMysql, dialectPostgreSQL}
               THEN (IF o = "ok" THEN NoErr ELSE o)
               ELSE "Not Supported DB dialects"
        failed(l) == [conn |-> "nil", locked |-> l, err |-> "Failed to open DB",
                      panic |-> FALSE, cause |-> err]
    IN  IF err # NoErr
        THEN IF name = dialectSqlite3
             THEN IF err \notin Sqlite3Errors
                  \* err.(sqlite3.Error) on an error of another type panics
                  THEN [conn |-> "nil", locked |-> FALSE, err |-> err, panic |-> TRUE,
                        cause |-> err]
                  ELSE IF err \in {"sqlite3.ErrLocked", "sqlite3.ErrBusy"}
                  THEN failed(TRUE)
                  ELSE failed(FALSE)
             ELSE failed(FALSE)
        ELSE [conn |-> "open", locked |-> FALSE, err |-> NoErr, panic |-> FALSE,
              cause |-> NoErr]

(***************************************************************************)
(* RDBDriver.IsGoCPEDictModelV1, main.go 250-272.  q is the outcome of the *)
(* dialect's table-count query.                                            *)
(***************************************************************************)
HasTable(tbls, t) == t \in tbls

\* variant: the count test lets an empty store through as legacy
RDBIsGoCPEDictModelV1_CountGE(tbls, q) ==
    IF HasTable(tbls, FetchMetaTable)
    THEN [isV1 |-> FALSE, err |-> NoErr]
    ELSE LET count == IF q = "ok" THEN Cardinality(tbls) ELSE 0
             err == IF q = "ok" THEN NoErr ELSE q
         IN  IF count >= 0
             THEN [isV1 |-> TRUE, err |-> NoErr]
             ELSE [isV1 |-> FALSE, err |-> err]

\* variant: the FetchMeta table is not looked for
RDBIsGoCPEDictModelV1_NoHasTable(tbls, q) ==
    LET count == IF q = "ok" THEN Cardinality(tbls) ELSE 0
        err == IF q = "ok" THEN NoErr ELSE q
    IN  IF count > 0
        THEN [isV1 |-> TRUE, err |-> NoErr]
        ELSE [isV1 |-> FALSE, err |-> err]

RDBIsGoCPEDictModelV1(tbls, q) ==
    IF HasTable(tbls, FetchMetaTable)
    THEN [isV1 |-> FALSE, err |-> NoErr]
    ELSE LET count == IF q = "ok" THEN Cardinality(tbls) ELSE 0
             err == IF q = "ok" THEN NoErr ELSE q
         IN  IF count > 0
             THEN [isV1 |-> TRUE, err |-> NoErr]
             ELSE [isV1 |-> FALSE, err |-> err]

(***************************************************************************)
(* RDBDriver.MigrateDB, main.go 239-247.  AutoMigrate creates the missing  *)
(* tables in argument order; m = n means the n-th model failed.            *)
(***************************************************************************)
AutoMigrate(tbls, m) ==
    CASE m = "ok"   -> tbls \cup {FetchMetaTable, CategorizedCpeTable}
      [] m = "err1" -> tbls
      [] m = "err2" -> tbls \cup {FetchMetaTable}

RDBMigrateDB(tbls, m) ==
    [tables |-> AutoMigrate(tbls, m),
     err |-> IF m = "ok" THEN NoErr ELSE "Failed to migrate"]

(***************************************************************************)
(* RDBDriver.CloseDB, main.go 223-236.                                     *)
(***************************************************************************)
RDBCloseDB(c, o) ==
    IF c = "nil"
    THEN [conn |-> c, err |-> NoErr]
    ELSE IF o = "ok"
    THEN [conn |-> "closed", err |-> NoErr]
    ELSE [conn |-> c, err |-> "Failed to close DB"]

(***************************************************************************)
(* RedisDriver: the key-value driver behind the same interface.  Each call *)
(* may return any result the interface allows; it never touches the        *)
(* relational store.                                                       *)
(***************************************************************************)
RedisOpenDB ==
    {[conn |-> "open", locked |-> FALSE, err |-> NoErr, panic |-> FALSE, cause |-> NoErr],
     [conn |-> "nil", locked |-> FALSE, err |-> "Failed to open DB", panic |-> FALSE,
      cause |-> "error"],
     [conn |-> "nil", locked |-> TRUE, err |-> "Failed to open DB", panic |-> FALSE,
      cause |-> "locked"]}
RedisIsGoCPEDictModelV1 ==
    {[isV1 |-> FALSE, err |-> NoErr], [isV1 |-> TRUE, err |-> NoErr],
     [isV1 |-> FALSE, err |-> "error"]}
RedisMigrateDB(tbls) ==
    {[tables |-> tbls, err |-> NoErr]}

(***************************************************************************)
(* GetFetchMeta, main.go 275-284.  Take reads one row with no ORDER BY:    *)
(* any stored row may come back, ErrRecordNotFound when there is none.     *)
(***************************************************************************)
TakeOutcomes(rows) ==
    {[found |-> <<r>>, err |-> NoErr] : r \in rows}
    \cup (IF rows = {} THEN {[found |-> <<>>, err |-> "ErrRecordNotFound"]} ELSE {})
    \cup {[found |-> <<>>, err |-> "error"]}

\* a GetFetchMeta that returns every error of Take, "not found" included
RDBGetFetchMeta_NotFoundIsError(t) ==
    IF t.err # NoErr
    THEN [meta |-> <<>>, err |-> t.err]
    ELSE [meta |-> t.found, err |-> NoErr]

RDBGetFetchMeta(t) ==
    IF t.err # NoErr
    THEN IF t.err # "ErrRecordNotFound"
         THEN [meta |-> <<>>, err |-> t.err]
         ELSE [meta |-> <<FetchMeta(0, Revision, LatestSchemaVersion, 0)>>, err |-> NoErr]
    ELSE [meta |-> t.found, err |-> NoErr]

(***************************************************************************)
(* UpsertFetchMeta, main.go 287-291.  gorm's Save inserts a value whose    *)
(* primary key is zero and updates the row of a non-zero primary key.      *)
(***************************************************************************)
Stamp(fm) ==
    [fm EXCEPT !.GoCPEDictRevision = Revision, !.SchemaVersion = LatestSchemaVersion]

Save(rows, m) ==
    IF m.id = 0
    THEN rows \cup {[m EXCEPT !.id = NextID(rows)]}
    ELSE {r \in rows : r.id # m.id} \cup {m}

\* the primary key of the row Save wrote
SavedID(rows, m) == IF m.id = 0 THEN NextID(rows) ELSE m.id

(***************************************************************************)
(* chunkSlice, main.go 118-134.  The producer goroutine is at index i of   *)
(* its loop; Chunk is the range it sends there, ChanDone holds when its    *)
(* loop has ended and the channel is closed.                               *)
(***************************************************************************)
NoChan == [i |-> 0, length |-> 0, chunkSize |-> 0, started |-> FALSE]
NoTx == [state |-> "none", rows |-> {}]

chunkSlice(length, chunkSize) ==
    [i |-> 0, length |-> length, chunkSize |-> chunkSize, started |-> TRUE]

\* variant: the last range is not clipped to length
Chunk_NoClip(c) == [From |-> c.i, To |-> c.i + c.chunkSize]

Chunk(c) ==
    LET to == c.i + c.chunkSize
    IN  [From |-> c.i, To |-> IF c.length < to THEN c.length ELSE to]

ChanDone(c) == ~(c.i < c.length)

ChanNext(c) == [c EXCEPT !.i = c.i + c.chunkSize]

\* s[from:to] of a Go slice (0-based, half-open)
Slice(s, from, to) == SubSeq(s, from + 1, to)

Range(s) == {s[k] : k \in DOMAIN s}

\* every order in which the backend may return the members of S
RECURSIVE SeqsOf(_)
SeqsOf(S) ==
    IF S = {} THEN {<<>>}
    ELSE UNION {{<<x>> \o t : t \in SeqsOf(S \ {x})} : x \in S}

(***************************************************************************)
(* NewDB, main.go 73-101, one action per step it calls.                    *)
(***************************************************************************)
NoRet == [driver |-> NilDriver, locked |-> FALSE, err |-> "running"]
NoOp == [op |-> "none"]

\* main.go 79-84
NewDBOpenFailed(locked, err) ==
    IF locked
    THEN [driver |-> NilDriver, locked |-> TRUE, err |-> err]
    ELSE [driver |-> NilDriver, locked |-> FALSE, err |-> err]

\* variant: a legacy store does not stop NewDB
NewDBAfterIsV1_IgnoreLegacy(r) ==
    IF r.err # NoErr
    THEN <<[driver |-> NilDriver, locked |-> FALSE, err |-> r.err]>>
    ELSE <<>>

\* main.go 86-94: what NewDB returns after IsGoCPEDictModelV1, <<>> to go on
NewDBAfterIsV1(r) ==
    IF r.err # NoErr
    THEN <<[driver |-> NilDriver, locked |-> FALSE, err |-> r.err]>>
    ELSE IF r.isV1
    THEN <<[driver |-> NilDriver, locked |-> FALSE, err |-> "SchemaVersion is incompatible"]>>
    ELSE <<>>

\* main.go 96-100
NewDBAfterMigrate(d, err) ==
    IF err # NoErr
    THEN [driver |-> d, locked |-> FALSE, err |-> err]
    ELSE [driver |-> d, locked |-> FALSE, err |-> NoErr]

OpenDBResults ==
    IF driver = "rdb"
    THEN {RDBOpenDB(dbType, o) : o \in GormOpenOutcomes(dbType)}
    ELSE RedisOpenDB

IsV1Results ==
    IF driver = "rdb"
    THEN {RDBIsGoCPEDictModelV1(tables, q) : q \in {"ok", "error"}}
    ELSE RedisIsGoCPEDictModelV1

MigrateResults ==
    IF driver = "rdb"
    THEN {RDBMigrateDB(tables, m) : m \in {"ok", "err1", "err2"}}
    ELSE RedisMigrateDB(tables)

NewDBCall ==
    /\ pc \in {"idle", "returned"}
    /\ opens < MaxOpens
    /\ opens' = opens + 1
    /\ LET d == newDB(dbType)
       IN  /\ driver' = d.driver
           /\ steps' = <<"newDB">>
           /\ stepRes' = <<IF d.err = NoErr THEN "ok" ELSE "err">>
           /\ IF d.err # NoErr
              THEN /\ pc' = "returned"
                   /\ ret' = [driver |-> d.driver, locked |-> FALSE, err |-> d.err]
              ELSE /\ pc' = "OpenDB"
                   /\ ret' = NoRet
    /\ conn' = "nil"
    /\ faults' = FALSE
    /\ openPre' = [tables |-> tables, metas |-> metas, cpes |-> cpes]
    /\ metaOp' = NoOp
    /\ UNCHANGED <<dbType, tables, metas, cpes, replVars>>

OpenDBStep ==
    /\ pc = "OpenDB"
    /\ \E r \in OpenDBResults :
        /\ steps' = Append(steps, "OpenDB")
        /\ stepRes' = Append(stepRes, IF r.err = NoErr THEN "ok" ELSE r.cause)
        /\ faults' = (faults \/ r.err # NoErr)
        /\ conn' = r.conn
        /\ IF r.panic
           THEN pc' = "panicked" /\ ret' = ret
           ELSE IF r.err # NoErr
           THEN pc' = "returned" /\ ret' = NewDBOpenFailed(r.locked, r.err)
           ELSE pc' = "IsGoCPEDictModelV1" /\ ret' = ret
    /\ UNCHANGED <<dbType, driver, opens, tables, metas, cpes, openPre, metaOp, replVars>>

IsV1Step ==
    /\ pc = "IsGoCPEDictModelV1"
    /\ \E r \in IsV1Results :
        /\ steps' = Append(steps, "IsGoCPEDictModelV1")
        /\ stepRes' = Append(stepRes, IF r.err # NoErr THEN "err"
                                      ELSE IF r.isV1 THEN "isV1" ELSE "ok")
        /\ faults' = (faults \/ r.err # NoErr)
        /\ LET out == NewDBAfterIsV1(r)
           IN  IF out # <<>>
               THEN pc' = "returned" /\ ret' = out[1]
               ELSE pc' = "MigrateDB" /\ ret' = ret
    /\ UNCHANGED <<dbType, driver, conn, opens, tables, metas, cpes, openPre, metaOp, replVars>>

MigrateStep ==
    /\ pc = "MigrateDB"
    /\ \E r \in MigrateResults :
        /\ steps' = Append(steps, "MigrateDB")
        /\ stepRes' = Append(stepRes, IF r.err # NoErr THEN "err" ELSE "ok")
        /\ faults' = (faults \/ r.err # NoErr)
        /\ tables' = r.tables
        /\ ret' = NewDBAfterMigrate(driver, r.err)
        /\ pc' = "returned"
    /\ UNCHANGED <<dbType, driver, conn, opens, metas, cpes, openPre, metaOp, replVars>>

\* the caller closes the driver NewDB handed back
CloseDB ==
    /\ pc = "returned"
    /\ ret.driver # NilDriver
    /\ \E o \in {"ok", "error"} :
        conn' = IF driver = "rdb" THEN RDBCloseDB(conn, o).conn ELSE "closed"
    /\ pc' = "idle"
    /\ metaOp' = NoOp
    /\ UNCHANGED <<dbType, driver, ret, steps, stepRes, faults, opens, tables,
                   metas, cpes, openPre, replVars>>

(***************************************************************************)
(* The metadata calls of a caller holding a Ready relational driver.       *)
(***************************************************************************)
Ready == pc = "returned" /\ ret.err = NoErr /\ driver = "rdb" /\ conn = "open"

UpsertArgs ==
    {FetchMeta(id, rs[1], rs[2], lfa) : id \in {0} \cup {r.id : r \in metas},
                                        rs \in {<<Revision, LatestSchemaVersion>>, <<"rev_old", 1>>},
                                        lfa \in Times}

GetFetchMeta ==
    /\ Ready
    /\ \E t \in TakeOutcomes(metas) :
        LET r == RDBGetFetchMeta(t)
        IN  metaOp' = [op |-> "get", meta |-> r.meta, err |-> r.err]
    /\ UNCHANGED <<lifeVars, metas, cpes, replVars>>

UpsertFetchMeta ==
    /\ Ready
    /\ \E fm \in UpsertArgs, o \in {"ok", "error"} :
        LET m == Stamp(fm)
        IN  /\ m.id = 0 => Cardinality(metas) < MaxMetaRows
            /\ metas' = IF o = "ok" THEN Save(metas, m) ELSE metas
            /\ metaOp' = [op |-> "upsert", arg |-> fm,
                          saved |-> IF o = "ok" THEN SavedID(metas, m) ELSE 0,
                          err |-> IF o = "ok" THEN NoErr ELSE o]
    /\ UNCHANGED <<lifeVars, cpes, replVars>>

(***************************************************************************)
(* The store a process may find: any set of tables; a metadata row written *)
(* by this or an older build; entries of an earlier fetch.                 *)
(***************************************************************************)
StoredCpe == CategorizedCpe(1, "NVD", <<"a">>, <<"x">>, <<"c", "1">>, FALSE)

InitStore ==
    /\ tables \in SUBSET {FetchMetaTable, CategorizedCpeTable, OtherTable}
    /\ metas \in IF FetchMetaTable \in tables
                 THEN {{}} \cup {{FetchMeta(1, rev, sv, 0)} :
                                  rev \in Revisions, sv \in SchemaVersions}
                 ELSE {{}}
    /\ cpes \in IF CategorizedCpeTable \in tables THEN {{}, {StoredCpe}} ELSE {{}}

NoRead == [op |-> "none"]

\* no InsertCpes call and no lookup was made
ReplIdle ==
    /\ ipc = "idle"
    /\ fetchType = "NVD"
    /\ batch = <<>>
    /\ tx = NoTx
    /\ cpeSeq = Cardinality(cpes)
    /\ oldIDs = <<>>
    /\ delCh = NoChan
    /\ insCh = NoChan
    /\ stmts = <<>>
    /\ ierr = NoErr
    /\ pre = cpes
    /\ readRet = NoRead

\* chunkSlice was not called on its own
ChunkIdle ==
    /\ ch = NoChan
    /\ closed = FALSE
    /\ got = <<>>

Init ==
    /\ dbType \in DbTypes
    /\ pc = "idle"
    /\ driver = NilDriver
    /\ conn = "nil"
    /\ ret = NoRet
    /\ steps = <<>>
    /\ stepRes = <<>>
    /\ faults = FALSE
    /\ opens = 0
    /\ InitStore
    /\ openPre = [tables |-> tables, metas |-> metas, cpes |-> cpes]
    /\ metaOp = NoOp
    /\ ReplIdle
    /\ ChunkIdle

Next ==
    \/ NewDBCall
    \/ OpenDBStep
    \/ IsV1Step
    \/ MigrateStep
    \/ CloseDB
    \/ GetFetchMeta
    \/ UpsertFetchMeta

Spec == Init /\ [][Next]_vars

(***************************************************************************)
(* InsertCpes / deleteAndInsertCpes, main.go 332-371, one action per       *)
(* statement sent to the backend.  Statements issued on tx work on the     *)
(* transaction's private rows; the other connections of the pool, which    *)
(* the lookups use, read the committed rows.                               *)
(***************************************************************************)
lifeAll == <<lifeVars, metas, metaOp, chunkVars>>

\* the entries a feed may hold (ID 0: not yet stored)
UniverseSeq ==
    <<CategorizedCpe(0, "NVD", <<"a">>, <<"x">>, <<"c", "1">>, FALSE),
      CategorizedCpe(0, "NVD", <<"b">>, <<"x">>, <<"c", "2">>, TRUE),
      CategorizedCpe(0, "JVN", <<"a">>, <<"x">>, <<"c", "1">>, FALSE)>>
Universe == Range(UniverseSeq)

Batches == UNION {[1..n -> Universe] : n \in 0..MaxBatch}

\* the rows the backend stores for entries cs, keys counting on from seq
Stored(cs, seq) == {[cs[k] EXCEPT !.id = seq + k] : k \in DOMAIN cs}

\* conn.Begin(), main.go 338
Begin(rows, b) ==
    IF b = "ok" THEN [state |-> "open", rows |-> rows]
    ELSE [state |-> "failed", rows |-> {}]

\* the select of main.go 349: every order of the matching keys, or an error;
\* a transaction that failed to begin hands its error to every statement
SelectResults(t, T) ==
    IF t.state # "open"
    THEN {[ids |-> <<>>, RowsAffected |-> 0, Error |-> "begin failed"]}
    ELSE LET ids == {r.id : r \in {x \in t.rows : x.FetchType = T}}
         IN  {[ids |-> q, RowsAffected |-> Len(q), Error |-> NoErr] : q \in SeqsOf(ids)}
             \cup {[ids |-> <<>>, RowsAffected |-> 0, Error |-> "error"]}
             \cup (IF ids = {}
                   THEN {[ids |-> <<>>, RowsAffected |-> 0, Error |-> "ErrRecordNotFound"]}
                   ELSE {})

\* main.go 350: the select's error ends the call unless it is "not found"
SelectFailed(res) == res.Error # NoErr /\ res.Error # "ErrRecordNotFound"

\* variant: the delete runs on the connection, outside the transaction
DeleteOn_Conn == "conn"

\* the handle the delete (main.go 356) and the insert (main.go 363) run on
DeleteOn == "tx"

\* variant: the insert runs on the connection, outside the transaction
InsertOn_Conn == "conn"

InsertOn == "tx"

\* variant: the deferred function commits whatever the error
DeferredCall_AlwaysCommit(err) == "Commit"

\* main.go 339-345: what the deferred function does with the transaction
DeferredCall(err) == IF err # NoErr THEN "Rollback" ELSE "Commit"

\* variant: the whole batch goes into one insert statement
StartInsert_OneStatement(cs) ==
    [ipc |-> IF Len(cs) = 0 THEN "defer" ELSE "insert",
     insCh |-> chunkSlice(Len(cs), Len(cs) + 1)]

\* the insert loop starts once the delete loop is over (main.go 362)
StartInsert(cs) ==
    [ipc |-> IF Len(cs) = 0 THEN "defer" ELSE "insert",
     insCh |-> chunkSlice(Len(cs), InsertChunkSize)]

InsertCpesCall ==
    /\ Ready
    /\ ipc = "idle"
    /\ \E T \in FetchTypes, cs \in Batches, b \in {"ok", "error"} :
        /\ fetchType' = T
        /\ batch' = cs
        /\ tx' = Begin(cpes, b)
    /\ pre' = cpes
    /\ ipc' = "select"
    /\ readRet' = NoRead
    /\ UNCHANGED <<lifeAll, cpes, cpeSeq, oldIDs, delCh, insCh, stmts, ierr>>

SelectStep ==
    /\ ipc = "select"
    /\ \E res \in SelectResults(tx, fetchType) :
        /\ oldIDs' = res.ids
        /\ IF SelectFailed(res)
           THEN /\ ierr' = "Failed to select old defs"
                /\ ipc' = "defer"
                /\ UNCHANGED <<delCh, insCh>>
           ELSE IF res.RowsAffected > 0
           THEN /\ delCh' = chunkSlice(Len(res.ids), DeleteChunkSize)
                /\ ipc' = "delete"
                /\ UNCHANGED <<insCh, ierr>>
           ELSE /\ insCh' = StartInsert(batch).insCh
                /\ ipc' = StartInsert(batch).ipc
                /\ UNCHANGED <<delCh, ierr>>
    /\ readRet' = NoRead
    /\ UNCHANGED <<lifeAll, cpes, fetchType, batch, tx, cpeSeq, stmts, pre>>

DeleteStep ==
    /\ ipc = "delete"
    /\ ~ChanDone(delCh)
    /\ LET idx == Chunk(delCh)
           ids == Slice(oldIDs, idx.From, idx.To)
           left(rows) == {r \in rows : r.id \notin Range(ids)}
       IN  /\ delCh' = ChanNext(delCh)
           /\ stmts' = Append(stmts, [op |-> "delete", n |-> Len(ids), idx |-> idx])
           /\ \E d \in {"ok", "error"} :
                IF d = "ok"
                THEN /\ IF DeleteOn = "tx"
                        THEN tx' = [tx EXCEPT !.rows = left(tx.rows)] /\ cpes' = cpes
                        ELSE cpes' = left(cpes) /\ tx' = tx
                     /\ IF ChanDone(delCh')
                        THEN /\ insCh' = StartInsert(batch).insCh
                             /\ ipc' = StartInsert(batch).ipc
                        ELSE UNCHANGED <<insCh, ipc>>
                     /\ ierr' = ierr
                ELSE /\ ierr' = "Failed to delete"
                     /\ ipc' = "defer"
                     /\ UNCHANGED <<tx, cpes, insCh>>
    /\ readRet' = NoRead
    /\ UNCHANGED <<lifeAll, fetchType, batch, cpeSeq, oldIDs, pre>>

InsertStep ==
    /\ ipc = "insert"
    /\ ~ChanDone(insCh)
    /\ LET idx == Chunk(insCh)
           cs == Slice(batch, idx.From, idx.To)
           new == Stored(cs, cpeSeq)
       IN  /\ insCh' = ChanNext(insCh)
           /\ stmts' = Append(stmts, [op |-> "insert", n |-> Len(cs), idx |-> idx])
           /\ \E c \in {"ok", "error"} :
                IF c = "ok"
                THEN /\ IF InsertOn = "tx"
                        THEN tx' = [tx EXCEPT !.rows = tx.rows \cup new] /\ cpes' = cpes
                        ELSE cpes' = cpes \cup new /\ tx' = tx
                     /\ cpeSeq' = cpeSeq + Len(cs)
                     /\ ipc' = IF ChanDone(insCh') THEN "defer" ELSE "insert"
                     /\ ierr' = ierr
                ELSE /\ ierr' = "Failed to insert"
                     /\ ipc' = "defer"
                     /\ UNCHANGED <<tx, cpes, cpeSeq>>
    /\ readRet' = NoRead
    /\ UNCHANGED <<lifeAll, fetchType, batch, oldIDs, delCh, pre>>

\* the deferred function, main.go 339-345, and the return of the call; the
\* results of tx.Rollback() and tx.Commit() are dropped
Deferred ==
    /\ ipc = "defer"
    /\ IF DeferredCall(ierr) = "Rollback"
       THEN /\ tx' = [state |-> IF tx.state = "open" THEN "rolledback" ELSE tx.state,
                      rows |-> {}]
            /\ cpes' = cpes
       ELSE \E c \in {"ok", "error"} :
            IF c = "ok" /\ tx.state = "open"
            THEN tx' = [state |-> "committed", rows |-> {}] /\ cpes' = tx.rows
            ELSE tx' = [state |-> "commit failed", rows |-> {}] /\ cpes' = cpes
    /\ ipc' = "returned"
    /\ readRet' = NoRead
    /\ UNCHANGED <<lifeAll, fetchType, batch, cpeSeq, oldIDs, delCh, insCh, stmts,
                   ierr, pre>>

(***************************************************************************)
(* The lookups, main.go 294-329.  q is the outcome of the query.           *)
(***************************************************************************)
\* SQL LIKE: % matches any run of characters, _ any one character
RECURSIVE Like(_, _)
Like(str, pat) ==
    IF pat = <<>> THEN str = <<>>
    ELSE IF Head(pat) = "%"
    THEN Like(str, Tail(pat)) \/ (str # <<>> /\ Like(Tail(str), pat))
    ELSE /\ str # <<>>
         /\ (Head(pat) = "_" \/ Head(pat) = Head(str))
         /\ Like(Tail(str), Tail(pat))

\* SELECT DISTINCT vendor, product FROM categorized_cpes
DistinctVendorProduct(rows) == {<<r.Vendor, r.Product>> : r \in rows}

\* SELECT DISTINCT cpe_uri, deprecated ... WHERE vendor LIKE ? and product LIKE ?
DistinctCpeURIDeprecated(rows, vendor, product) ==
    {[CpeURI |-> r.CpeURI, Deprecated |-> r.Deprecated] :
        r \in {x \in rows : Like(x.Vendor, vendor) /\ Like(x.Product, product)}}

QueryOutcomes(found) ==
    {"ok", "error"} \cup (IF found = {} THEN {"ErrRecordNotFound"} ELSE {})

\* fmt.Sprintf("%s::%s", vp.Vendor, vp.Product)
Sprintf(vp) == vp[1] \o <<":", ":">> \o vp[2]

\* main.go 302-310
VendorProductsRet(results, q) ==
    IF q # "ok" /\ q = "ErrRecordNotFound"
    THEN [vendorProducts |-> <<>>, err |-> "Failed to select results"]
    ELSE [vendorProducts |-> [k \in DOMAIN results |-> Sprintf(results[k])],
          err |-> IF q = "ok" THEN NoErr ELSE q]

IsDeprecatedRow(r) == r.Deprecated

\* a loop that appends every row to the first list
IsActiveRow_All(r) == TRUE

IsActiveRow(r) == ~r.Deprecated

URIs(rs) == [k \in DOMAIN rs |-> rs[k].CpeURI]

\* main.go 316-328
CpesByVendorProductRet(results, q) ==
    IF q # "ok" /\ q = "ErrRecordNotFound"
    THEN [cpeURIs |-> <<>>, deprecated |-> <<>>, err |-> "Failed to select results"]
    ELSE [cpeURIs |-> URIs(SelectSeq(results, IsActiveRow)),
          deprecated |-> URIs(SelectSeq(results, IsDeprecatedRow)),
          err |-> NoErr]

LookupVendors == {<<"a">>, <<"%">>}
LookupProducts == {<<"_">>}

GetVendorProducts ==
    /\ Ready
    /\ \E q \in QueryOutcomes(DistinctVendorProduct(cpes)) :
        \E results \in (IF q = "ok" THEN SeqsOf(DistinctVendorProduct(cpes)) ELSE {<<>>}) :
            LET r == VendorProductsRet(results, q)
            IN  readRet' = [op |-> "GetVendorProducts", at |-> ipc, q |-> q,
                            vendorProducts |-> r.vendorProducts, err |-> r.err]
    /\ UNCHANGED <<lifeAll, cpes, ipc, fetchType, batch, tx, cpeSeq, oldIDs,
                   delCh, insCh, stmts, ierr, pre>>

GetCpesByVendorProduct ==
    /\ Ready
    /\ \E vendor \in LookupVendors, product \in LookupProducts :
        LET found == DistinctCpeURIDeprecated(cpes, vendor, product)
        IN  \E q \in QueryOutcomes(found) :
            \E results \in (IF q = "ok" THEN SeqsOf(found) ELSE {<<>>}) :
                LET r == CpesByVendorProductRet(results, q)
                IN  readRet' = [op |-> "GetCpesByVendorProduct", at |-> ipc, q |-> q,
                                vendor |-> vendor, product |-> product,
                                cpeURIs |-> r.cpeURIs, deprecated |-> r.deprecated,
                                err |-> r.err]
    /\ UNCHANGED <<lifeAll, cpes, ipc, fetchType, batch, tx, cpeSeq, oldIDs,
                   delCh, insCh, stmts, ierr, pre>>

(***************************************************************************)
(* A Ready relational driver on a migrated store holding entries of        *)
(* earlier fetches.                                                        *)
(***************************************************************************)
\* the stores of at most MaxStore rows, up to a renaming of the primary keys
\* (the select returns the keys in any order)
Stores ==
    LET sorted(f) == \A j, k \in DOMAIN f : j <= k => f[j] <= f[k]
        picks == UNION {{f \in [1..n -> DOMAIN UniverseSeq] : sorted(f)} : n \in 0..MaxStore}
    IN  {Stored([k \in DOMAIN f |-> UniverseSeq[f[k]]], 0) : f \in picks}

InitReplace ==
    /\ dbType = dialectSqlite3
    /\ pc = "returned"
    /\ driver = "rdb"
    /\ conn = "open"
    /\ ret = [driver |-> "rdb", locked |-> FALSE, err |-> NoErr]
    /\ steps = <<"newDB", "OpenDB", "IsGoCPEDictModelV1", "MigrateDB">>
    /\ stepRes = <<"ok", "ok", "ok", "ok">>
    /\ faults = FALSE
    /\ opens = 1
    /\ tables = {FetchMetaTable, CategorizedCpeTable}
    /\ metas = {}
    /\ cpes \in Stores
    /\ openPre = [tables |-> tables, metas |-> metas, cpes |-> cpes]
    /\ metaOp = NoOp
    /\ ReplIdle
    /\ ChunkIdle

NextReplace ==
    \/ InsertCpesCall
    \/ SelectStep
    \/ DeleteStep
    \/ InsertStep
    \/ Deferred
    \/ GetVendorProducts
    \/ GetCpesByVendorProduct

SpecReplace == InitReplace /\ [][NextReplace]_vars

(***************************************************************************)
(* chunkSlice on its own, main.go 118-134: a caller ranges over the        *)
(* channel of chunkSlice(length, chunkSize) until it is closed.            *)
(***************************************************************************)
ChunkSliceCall ==
    /\ ~ch.started
    /\ \E length \in 0..MaxLength, chunkSize \in 1..MaxChunkSize :
        ch' = chunkSlice(length, chunkSize)
    /\ UNCHANGED <<lifeVars, metas, metaOp, cpes, ipc, fetchType, batch, tx, cpeSeq,
                   oldIDs, delCh, insCh, stmts, ierr, pre, readRet, closed, got>>

\* ch <- idx meets the receive of the range loop (main.go 124-129)
ChunkReceive ==
    /\ ch.started
    /\ ~ChanDone(ch)
    /\ got' = Append(got, Chunk(ch))
    /\ ch' = ChanNext(ch)
    /\ UNCHANGED <<lifeVars, metas, metaOp, cpes, ipc, fetchType, batch, tx, cpeSeq,
                   oldIDs, delCh, insCh, stmts, ierr, pre, readRet, closed>>

\* the loop is over: the deferred close(ch) (main.go 122)
ChunkClose ==
    /\ ch.started
    /\ ChanDone(ch)
    /\ ~closed
    /\ closed' = TRUE
    /\ UNCHANGED <<lifeVars, metas, metaOp, cpes, ipc, fetchType, batch, tx, cpeSeq,
                   oldIDs, delCh, insCh, stmts, ierr, pre, readRet, ch, got>>

InitChunk ==
    /\ dbType = dialectSqlite3
    /\ pc = "idle"
    /\ driver = NilDriver
    /\ conn = "nil"
    /\ ret = NoRet
    /\ steps = <<>>
    /\ stepRes = <<>>
    /\ faults = FALSE
    /\ opens = 0
    /\ tables = {}
    /\ metas = {}
    /\ cpes = {}
    /\ openPre = [tables |-> tables, metas |-> metas, cpes |-> cpes]
    /\ metaOp = NoOp
    /\ ReplIdle
    /\ ChunkIdle

NextChunk ==
    \/ ChunkSliceCall
    \/ ChunkReceive
    \/ ChunkClose

SpecChunk == InitChunk /\ [][NextChunk]_vars

(***************************************************************************)
(* Properties.                                                             *)
(***************************************************************************)
\* rows without their primary keys
Contents(rows) == {[r EXCEPT !.id = 0] : r \in rows}

Generation(rows, T) == {r \in rows : r.FetchType = T}

\* what a lookup that read `rows` returns, as sets
VendorProductsOf(rows) == {Sprintf(vp) : vp \in DistinctVendorProduct(rows)}
ActiveOf(rows, v, p) ==
    {x.CpeURI : x \in {y \in DistinctCpeURIDeprecated(rows, v, p) : ~y.Deprecated}}
DeprecatedOf(rows, v, p) ==
    {x.CpeURI : x \in {y \in DistinctCpeURIDeprecated(rows, v, p) : y.Deprecated}}

\* the lookup in readRet was answered by the backend and read `rows`
ReadOf(rows) ==
    CASE readRet.op = "GetVendorProducts" ->
            Range(readRet.vendorProducts) = VendorProductsOf(rows)
      [] readRet.op = "GetCpesByVendorProduct" ->
            /\ Range(readRet.cpeURIs) = ActiveOf(rows, readRet.vendor, readRet.product)
            /\ Range(readRet.deprecated) = DeprecatedOf(rows, readRet.vendor, readRet.product)
      [] OTHER -> TRUE

Answered == readRet.op # "none" /\ readRet.q = "ok"

\* the entries the store holds once the running replace has committed
PostContents == Contents(pre \ Generation(pre, fetchType)) \cup Range(batch)

\* C1: when InsertCpes returns an error (the select, a delete chunk or an
\* insert chunk failed), the transaction was rolled back, the stored entries
\* of every fetch type are exactly those stored before the call, and a lookup
\* made afterwards returns what it would have returned before the call.
C1_ReplaceAtomicity ==
    (ipc = "returned" /\ ierr # NoErr) =>
        /\ cpes = pre
        /\ tx.state \in {"rolledback", "failed"}
        /\ Answered => ReadOf(pre)

\* an insert chunk failed after a delete chunk had succeeded, and a lookup
\* made after the call found entries
C1_Witness ==
    /\ ipc = "returned"
    /\ ierr = "Failed to insert"
    /\ \E k \in DOMAIN stmts : stmts[k].op = "delete"
    /\ readRet.op = "GetCpesByVendorProduct"
    /\ readRet.cpeURIs # <<>>

\* C2: after InsertCpes(T, batch), all entries of batch tagged T, returns
\* without error, the stored entries tagged T are exactly the entries of
\* batch, none of the previous generation remains, and GetVendorProducts
\* returns the pairs of the entries now stored.
C2_GenerationReplace ==
    (/\ ipc = "returned"
     /\ ierr = NoErr
     /\ \A k \in DOMAIN batch : batch[k].FetchType = fetchType) =>
        /\ Cardinality(Generation(cpes, fetchType)) = Len(batch)
        /\ Contents(Generation(cpes, fetchType)) = Range(batch)
        /\ Generation(cpes, fetchType) \cap Generation(pre, fetchType) = {}
        /\ (Answered /\ readRet.op = "GetVendorProducts") =>
                Range(readRet.vendorProducts) =
                    {Sprintf(vp) : vp \in DistinctVendorProduct(PostContents)}

\* C3: a lookup made while InsertCpes runs, between any two of its
\* statements, returns either what the store held before the call or what it
\* holds after the replace, never a partly deleted or partly inserted
\* generation.
C3_ReaderIsolation ==
    (Answered /\ readRet.at \in {"select", "delete", "insert", "defer"}) =>
        ReadOf(pre) \/ ReadOf(PostContents)

\* a lookup made after a delete chunk and before the last insert chunk, when
\* the transaction's rows differ from the old and from the new generation
C3_Witness ==
    /\ Answered
    /\ readRet.at = "insert"
    /\ \E k \in DOMAIN stmts : stmts[k].op = "delete"
    /\ \E k \in DOMAIN stmts : stmts[k].op = "insert"
    /\ Contents(tx.rows) # Contents(pre)
    /\ Contents(tx.rows) # PostContents
    /\ Contents(pre) # PostContents

CanonSteps == <<"newDB", "OpenDB", "IsGoCPEDictModelV1", "MigrateDB">>

\* C4: NewDB calls newDB, OpenDB, IsGoCPEDictModelV1, MigrateDB in this
\* order, each at most once, and stops at the first step that fails or
\* reports a legacy store; with an unknown dialect OpenDB is not called; it
\* returns a nil error only if all four steps succeeded.
C4_OpenSequence ==
    /\ Len(steps) <= Len(CanonSteps)
    /\ steps = SubSeq(CanonSteps, 1, Len(steps))
    /\ Len(stepRes) = Len(steps)
    /\ \A k \in 1..(Len(steps) - 1) : stepRes[k] = "ok"
    /\ dbType \notin {dialectSqlite3, dialectMysql, dialectPostgreSQL, dialectRedis}
            => "OpenDB" \notin Range(steps)
    /\ (pc \in {"returned", "idle"} /\ steps # <<>>) =>
            \/ stepRes[Len(steps)] # "ok"
            \/ steps = CanonSteps
    /\ (pc = "returned" /\ ret.err = NoErr) =>
            /\ steps = CanonSteps
            /\ \A k \in DOMAIN stepRes : stepRes[k] = "ok"

\* NewDB returned after IsGoCPEDictModelV1 reported a legacy store
C4_Witness ==
    /\ pc = "returned"
    /\ steps = <<"newDB", "OpenDB", "IsGoCPEDictModelV1">>
    /\ stepRes = <<"ok", "ok", "isV1">>

LockCauses == {"sqlite3.ErrLocked", "sqlite3.ErrBusy", "locked"}

\* C5: whenever the backend fails the open, OpenDB returns normally with an
\* error, and NewDB returns locked = TRUE exactly when the backend reported
\* the store locked or busy; locked is never TRUE with a nil error.
C5_LockClassification ==
    /\ pc # "panicked"
    /\ (pc = "returned" /\ Len(steps) = 2) =>
            /\ ret.err # NoErr
            /\ ret.locked <=> stepRes[2] \in LockCauses
    /\ (pc = "returned" /\ ret.locked) => ret.err # NoErr

\* C6: on a relational store IsGoCPEDictModelV1 reports true exactly when
\* the store has a table and no FetchMeta table; then NewDB fails with the
\* compatibility error, hands back no driver, and leaves tables and rows as
\* they were.
C6_LegacyDetection ==
    (driver = "rdb" /\ Len(steps) = 3) =>
        /\ stepRes[3] = "isV1" =>
                /\ tables # {}
                /\ FetchMetaTable \notin tables
                /\ pc = "returned"
                /\ ret = [driver |-> NilDriver, locked |-> FALSE,
                          err |-> "SchemaVersion is incompatible"]
                /\ tables = openPre.tables
                /\ metas = openPre.metas
                /\ cpes = openPre.cpes
        /\ stepRes[3] = "ok" => (tables = {} \/ FetchMetaTable \in tables)

\* a store of unrelated tables was reported legacy
C6_Witness ==
    /\ driver = "rdb"
    /\ pc = "returned"
    /\ stepRes = <<"ok", "ok", "isV1">>
    /\ OtherTable \in tables
    /\ ret.err = "SchemaVersion is incompatible"

\* C7: when the store holds a FetchMeta row whose SchemaVersion is not the
\* latest, NewDB fails, and no call rewrites that row's SchemaVersion.
C7_SchemaVersionGuard ==
    \A m \in openPre.metas :
        m.SchemaVersion # LatestSchemaVersion =>
            /\ (pc = "returned" /\ driver = "rdb") => ret.err # NoErr
            /\ \A n \in metas : n.id = m.id => n.SchemaVersion = m.SchemaVersion

AlreadyMigrated(st) == {FetchMetaTable, CategorizedCpeTable} \subseteq st.tables

\* C8: NewDB on an already migrated relational store, the backend failing
\* nothing, succeeds with locked = FALSE; from the call of NewDB until the
\* caller's next metadata call no row of the store is removed or changed and
\* no table is dropped (MigrateDB only adds), on the first open and on the
\* second alike.
C8_IdempotentReopen ==
    /\ (pc = "returned" /\ driver = "rdb" /\ AlreadyMigrated(openPre) /\ ~faults) =>
            ret = [driver |-> "rdb", locked |-> FALSE, err |-> NoErr]
    /\ (pc \in {"OpenDB", "IsGoCPEDictModelV1", "MigrateDB", "returned", "panicked"}
        /\ metaOp = NoOp) =>
            /\ metas = openPre.metas
            /\ cpes = openPre.cpes
            /\ openPre.tables \subseteq tables

\* the second NewDB in sequence returned Ready on a migrated store that holds
\* a metadata row and an entry
C8_Witness ==
    /\ opens = 2
    /\ pc = "returned"
    /\ ret.err = NoErr
    /\ driver = "rdb"
    /\ AlreadyMigrated(openPre)
    /\ metaOp = NoOp
    /\ metas # {}
    /\ cpes # {}

C9_Persisted ==
    (metaOp.op = "upsert" /\ metaOp.err = NoErr) =>
        FetchMeta(metaOp.saved, Revision, LatestSchemaVersion, metaOp.arg.LastFetchedAt)
            \in metas

C9_GetReturnsIt ==
    (/\ metaOp.op = "upsert"
     /\ metaOp.err = NoErr
     /\ metaOp'.op = "get"
     /\ metaOp'.err = NoErr) =>
        metaOp'.meta = <<FetchMeta(metaOp.saved, Revision, LatestSchemaVersion,
                                   metaOp.arg.LastFetchedAt)>>

\* C9: the record a successful UpsertFetchMeta persists carries the build's
\* Revision and LatestSchemaVersion and the caller's LastFetchedAt, whatever
\* the caller passed, and the GetFetchMeta that follows returns that record.
C9_MetadataStamping == []C9_Persisted /\ [][C9_GetReturnsIt]_vars

\* C10: the store never holds more than one FetchMeta row.
C10_SingleMetaRow == Cardinality(metas) <= 1

\* C11: the ranges received from chunkSlice(N, S) are [0,S), [S,2S), ...:
\* the first starts at 0, each starts where the one before ended, each is
\* non-empty and at most S long; once the channel is closed the last range
\* ends exactly at N, and nothing was received when N = 0.
C11_ChunkerCoverage ==
    /\ \A k \in DOMAIN got :
        /\ got[k].From = (k - 1) * ch.chunkSize
        /\ got[k].From < got[k].To
        /\ got[k].To - got[k].From <= ch.chunkSize
        /\ got[k].To <= ch.length
        /\ k > 1 => got[k].From = got[k - 1].To
    /\ closed =>
        /\ ch.length = 0 <=> got = <<>>
        /\ got # <<>> => got[Len(got)].To = ch.length

\* the channel closed after several ranges, the last one clipped
C11_Witness ==
    /\ closed
    /\ Len(got) >= 3
    /\ got[Len(got)].To - got[Len(got)].From < ch.chunkSize

\* the stored entries whose vendor and product match the patterns
Matching(rows, v, p) == {r \in rows : Like(r.Vendor, v) /\ Like(r.Product, p)}

NoDuplicates(s) == \A j, k \in DOMAIN s : s[j] = s[k] => j = k

\* C12: GetCpesByVendorProduct returns in its first list exactly the cpeURIs
\* of the stored entries matching both patterns with deprecated = false, in
\* its second list exactly those with deprecated = true; neither list holds
\* a cpeURI twice, also when the same entry is stored under several fetch
\* types, and no entry that fails a pattern appears in either list.
C12_LookupPartition ==
    (Answered /\ readRet.op = "GetCpesByVendorProduct") =>
        LET m == Matching(cpes, readRet.vendor, readRet.product)
        IN  /\ Range(readRet.cpeURIs) = {r.CpeURI : r \in {x \in m : ~x.Deprecated}}
            /\ Range(readRet.deprecated) = {r.CpeURI : r \in {x \in m : x.Deprecated}}
            /\ NoDuplicates(readRet.cpeURIs)
            /\ NoDuplicates(readRet.deprecated)

\* a lookup on a store that holds one cpeURI under two fetch types, a
\* deprecated entry, and an entry that does not match the vendor pattern
C12_Witness ==
    /\ Answered
    /\ readRet.op = "GetCpesByVendorProduct"
    /\ \E r1, r2 \in Matching(cpes, readRet.vendor, readRet.product) :
        r1.CpeURI = r2.CpeURI /\ r1.FetchType # r2.FetchType
    /\ \E r \in cpes : r.Deprecated
    /\ cpes \ Matching(cpes, readRet.vendor, readRet.product) # {}
    /\ Len(readRet.cpeURIs) = 1

\* C13: in GetVendorProducts and GetCpesByVendorProduct a "record not found"
\* from the backend gives an empty result with a nil error, and every other
\* backend error is returned to the caller as a non-nil error.
C13_LookupErrorHandling ==
    readRet.op # "none" =>
        /\ readRet.q = "ErrRecordNotFound" => readRet.err = NoErr
        /\ readRet.q = "error" => readRet.err # NoErr

C14_Returned ==
    metaOp.op = "get" =>
        /\ (metaOp.err = NoErr /\ metas = {}) =>
                metaOp.meta = <<FetchMeta(0, Revision, LatestSchemaVersion, 0)>>
        /\ (metaOp.err = NoErr /\ metas # {}) =>
                Len(metaOp.meta) = 1 /\ metaOp.meta[1] \in metas
        /\ metaOp.err # NoErr =>
                metaOp.err # "ErrRecordNotFound" /\ metaOp.meta = <<>>

C14_WritesNothing ==
    metaOp'.op = "get" => (metas' = metas /\ cpes' = cpes /\ tables' = tables)

\* C14: GetFetchMeta on a store without a metadata row returns a nil error
\* and a fresh FetchMeta carrying the build's Revision and
\* LatestSchemaVersion, and writes nothing; on a store with a metadata row
\* it returns a stored row; the only error it returns is a backend failure
\* other than "not found".
C14_GetFetchMetaDefault == []C14_Returned /\ [][C14_WritesNothing]_vars

\* GetFetchMeta answered with the fresh value on a migrated store that holds
\* entries and no metadata row
C14_Witness ==
    /\ metaOp.op = "get"
    /\ metaOp.err = NoErr
    /\ metas = {}
    /\ cpes # {}
    /\ metaOp.meta[1].GoCPEDictRevision = Revision
    /\ metaOp.meta[1].SchemaVersion = LatestSchemaVersion

Running == ipc \in {"select", "delete", "insert", "defer"}

\* C15: an InsertCpes call begins one transaction and runs the select, every
\* delete chunk and every insert chunk inside it: until the deferred
\* function runs the transaction is neither committed nor rolled back and
\* the committed store is the one the call found.  The call returns with the
\* transaction ended, by Commit exactly when the returned error is nil and
\* by Rollback exactly when it is not.
C15_TransactionScope ==
    /\ Running =>
        /\ tx.state \in {"open", "failed"}
        /\ cpes = pre
    /\ ipc = "returned" =>
        /\ tx.state # "open"
        /\ ierr = NoErr <=> tx.state \in {"committed", "commit failed"}
        /\ ierr # NoErr <=> tx.state \in {"rolledback", "failed"}

\* a call that deleted and inserted in several statements and committed
C15_Witness ==
    /\ ipc = "returned"
    /\ ierr = NoErr
    /\ tx.state = "committed"
    /\ Len(stmts) >= 3
    /\ \E k \in DOMAIN stmts : stmts[k].op = "delete"
    /\ \E k \in DOMAIN stmts : stmts[k].op = "insert"
    /\ cpes # pre

IsDelete(s) == s.op = "delete"
IsInsert(s) == s.op = "insert"

\* the statements ss carry the indexes 0..N-1 once each, in order, at most S
\* to a statement
Covers(ss, N, S) ==
    /\ ss = <<>> <=> N = 0
    /\ \A k \in DOMAIN ss :
        /\ ss[k].idx.From = (IF k = 1 THEN 0 ELSE ss[k - 1].idx.To)
        /\ ss[k].idx.From < ss[k].idx.To
        /\ ss[k].n = ss[k].idx.To - ss[k].idx.From
        /\ ss[k].n <= S
    /\ ss # <<>> => ss[Len(ss)].idx.To = N

\* C16: in an InsertCpes that returns without error the selected identifiers
\* are those of the old generation, each is in exactly one delete statement
\* and each batch entry in exactly one insert statement, in index order, all
\* deletes before the first insert, at most DeleteChunkSize identifiers to a
\* delete and InsertChunkSize rows to an insert, and no delete statement when
\* the old generation is empty.
C16_StatementChunking ==
    (ipc = "returned" /\ ierr = NoErr) =>
        /\ stmts = SelectSeq(stmts, IsDelete) \o SelectSeq(stmts, IsInsert)
        /\ Range(oldIDs) = {r.id : r \in Generation(pre, fetchType)}
        /\ NoDuplicates(oldIDs)
        /\ Covers(SelectSeq(stmts, IsDelete), Len(oldIDs), DeleteChunkSize)
        /\ Covers(SelectSeq(stmts, IsInsert), Len(batch), InsertChunkSize)
        /\ Generation(pre, fetchType) = {} => SelectSeq(stmts, IsDelete) = <<>>

\* a successful call that needed two delete and two insert statements
C16_Witness ==
    /\ ipc = "returned"
    /\ ierr = NoErr
    /\ Len(SelectSeq(stmts, IsDelete)) >= 2
    /\ Len(SelectSeq(stmts, IsInsert)) >= 2

\* C17: when NewDB fails after OpenDB succeeded, the connection stays
\* closable: there is no state in which NewDB has returned a nil driver
\* while the connection it opened is open.
C17_NoLeakedConnection ==
    ~(pc = "returned" /\ ret.driver = NilDriver /\ conn = "open")

\* the producer of channel c still has a range to send
Blocked(c) == c.started /\ ~ChanDone(c)

\* C18: whether InsertCpes succeeds or fails at a chunk, every producer
\* goroutine started by chunkSlice has sent all its ranges and closed its
\* channel by the time the call has returned; none is left blocked on a
\* send that nobody will receive.
C18_ProducerTermination ==
    ipc = "returned" => (~Blocked(delCh) /\ ~Blocked(insCh))

\* C19: InsertCpes returns a nil error only if its transaction was begun and
\* committed, the store then holding the new generation; when Begin or the
\* final Commit fails it returns a non-nil error and the store holds what it
\* held before the call.
C19_SuccessImpliesCommitted ==
    ipc = "returned" =>
        /\ ierr = NoErr =>
            /\ tx.state = "committed"
            /\ Contents(cpes) = PostContents
        /\ tx.state \in {"failed", "commit failed"} =>
            /\ ierr # NoErr
            /\ cpes = pre

\* C20: InsertCpes(T, batch) leaves the stored entries of every other fetch
\* type U as they were before the call, whatever the tags of the batch
\* entries and whether the call succeeds or fails, and it does not change
\* the FetchMeta row.
C20_OwnGenerationOnly ==
    ipc # "idle" =>
        /\ \A U \in FetchTypes \ {fetchType} :
                Generation(cpes, U) = Generation(pre, U)
        /\ metas = openPre.metas

====
